---- MODULE Spec2Model ----
(***************************************************************************)
(* Model of valid_drm.py: the manifest classifier check_manifest, the     *)
(* per-row task process_row, and main's dispatch of one task per row on a  *)
(* ThreadPoolExecutor with as_completed result assembly.                   *)
(*                                                                         *)
(* Python strings are sequences of one-character strings, so that strip,   *)
(* lower, endswith, "in" and urlparse are computed character by character. *)
(* Python's None is the empty sequence and a present value x is <<x>>.     *)
(* Row indexes are 0-based as in the source.                               *)
(***************************************************************************)
EXTENDS Integers, Sequences, FiniteSets, TLC

VARIABLES
    rows,       \* main: rows = read_csv(...), a function 0..N-1 -> dict
    total,      \* main: total = len(rows)
    pc,         \* main: position of the main thread
    submitted,  \* main: number of executor.submit calls made so far
    queue,      \* executor: work queue of submitted, not yet started tasks
    futures,    \* executor: idx -> future, for the submitted tasks
    task,       \* worker frames of process_row: idx -> [pos, drm_results]
    results,    \* main: results = [None] * total
    completed,  \* main: completed counter
    yielded,    \* as_completed: the futures yielded so far, in yield order
    progress,   \* stdout: the progress lines printed so far
    gets,       \* network: number of requests.get calls per (row, field)
    resp,       \* network: outcome of the fetch made for (row, field)
    report,     \* generate_html_report: the table rows written
    call        \* a single direct call of check_manifest (SpecClassify)

vars == <<rows, total, pc, submitted, queue, futures, task, results,
          completed, yielded, progress, gets, resp, report, call>>

-----------------------------------------------------------------------------
(* Python values *)

None == <<>>
Some(x) == <<x>>

(* str: character sequences *)

LowerLetters == <<"a", "b", "c", "d", "e", "f", "g", "h", "i", "j", "k", "l", "m", "n", "o", "p", "q", "r", "s", "t", "u", "v", "w", "x", "y", "z">>
UpperLetters == <<"A", "B", "C", "D", "E", "F", "G", "H", "I", "J", "K", "L", "M", "N", "O", "P", "Q", "R", "S", "T", "U", "V", "W", "X", "Y", "Z">>
Digits == <<"0", "1", "2", "3", "4", "5", "6", "7", "8", "9">>
Whitespace == {" ", "\t", "\n", "\r"}

Range(s) == {s[k] : k \in DOMAIN s}

\* s[a:b] of Python, with 1-based inclusive positions a..b
Slice(s, a, b) == [k \in 1..(b - a + 1) |-> s[a + k - 1]]

\* str.lower(), one character
LowerChar(c) ==
    IF \E k \in DOMAIN UpperLetters : UpperLetters[k] = c
    THEN LowerLetters[CHOOSE k \in DOMAIN UpperLetters : UpperLetters[k] = c]
    ELSE c

\* str.lower()
Lower(s) == [k \in DOMAIN s |-> LowerChar(s[k])]

\* str.strip(): leading and trailing whitespace removed
Strip(s) ==
    LET keep == {k \in DOMAIN s : s[k] \notin Whitespace}
    IN  IF keep = {} THEN <<>>
        ELSE LET a == CHOOSE k \in keep : \A j \in keep : k <= j
                 b == CHOOSE k \in keep : \A j \in keep : k >= j
             IN  Slice(s, a, b)

\* str.endswith(suffix)
EndsWith(s, suffix) ==
    /\ Len(suffix) <= Len(s)
    /\ \A k \in 1..Len(suffix) : s[Len(s) - Len(suffix) + k] = suffix[k]

\* needle in s
Contains(s, needle) ==
    \E a \in 0..(Len(s) - Len(needle)) :
        \A k \in 1..Len(needle) : s[a + k] = needle[k]

\* s.find(c, start): the first position >= start holding a character of cs,
\* 0 when there is none
Find(s, cs, start) ==
    LET hits == {k \in DOMAIN s : k >= start /\ s[k] \in cs}
    IN  IF hits = {} THEN 0 ELSE CHOOSE k \in hits : \A j \in hits : k <= j

\* s.rfind(c): the last position holding c, 0 when there is none
RFind(s, c) ==
    LET hits == {k \in DOMAIN s : s[k] = c}
    IN  IF hits = {} THEN 0 ELSE CHOOSE k \in hits : \A j \in hits : k >= j

\* "s is not None" of a str
Truthy_IsNotNone(s) == TRUE

\* bool(s) of a str
Truthy(s) == Len(s) > 0

-----------------------------------------------------------------------------
(* urllib.parse.urlparse(url).path *)

S_http == <<"h", "t", "t", "p">>
S_https == <<"h", "t", "t", "p", "s">>
S_ftp == <<"f", "t", "p">>
S_rtsp == <<"r", "t", "s", "p">>

\* urllib.parse.scheme_chars and uses_params (the schemes the model meets)
SchemeChars == Range(LowerLetters) \cup Range(UpperLetters) \cup Range(Digits) \cup {"+", "-", "."}
UsesParams == {<<>>, S_http, S_https, S_ftp, S_rtsp}

\* the scheme of url, lower-cased, <<>> when it has none
UrlScheme(url) ==
    LET i == Find(url, {":"}, 1)
    IN  IF /\ i > 1
           /\ url[1] \in Range(LowerLetters) \cup Range(UpperLetters)
           /\ \A k \in 1..(i - 1) : url[k] \in SchemeChars
        THEN Lower(Slice(url, 1, i - 1))
        ELSE <<>>

\* url without "scheme:"
AfterScheme(url) ==
    IF UrlScheme(url) = <<>> THEN url
    ELSE Slice(url, Len(UrlScheme(url)) + 2, Len(url))

\* url without "//netloc": the netloc runs to the first of / ? #
AfterNetloc(s) ==
    IF Len(s) >= 2 /\ s[1] = "/" /\ s[2] = "/"
    THEN LET d == Find(s, {"/", "?", "#"}, 3)
         IN  IF d = 0 THEN <<>> ELSE Slice(s, d, Len(s))
    ELSE s

\* s up to, not including, the first character of cs
Before(s, cs) ==
    LET d == Find(s, cs, 1)
    IN  IF d = 0 THEN s ELSE Slice(s, 1, d - 1)

\* urllib.parse._splitparams(url)[0]
SplitParams(s) ==
    LET slash == RFind(s, "/")
        i == IF slash > 0 THEN Find(s, {";"}, slash) ELSE Find(s, {";"}, 1)
    IN  IF i = 0 THEN s ELSE Slice(s, 1, i - 1)

\* urlparse(url).path
UrlPath(url) ==
    LET p == Before(Before(AfterNetloc(AfterScheme(url)), {"#"}), {"?"})
    IN  IF UrlScheme(url) \in UsesParams /\ ";" \in Range(p)
        THEN SplitParams(p)
        ELSE p

-----------------------------------------------------------------------------
(* check_manifest *)

S_mpd == <<".", "m", "p", "d">>
S_m3u8 == <<".", "m", "3", "u", "8">>
S_ContentProtection == <<"<", "C", "o", "n", "t", "e", "n", "t", "P", "r", "o", "t", "e", "c", "t", "i", "o", "n">>
S_EXT_X_KEY == <<"#", "E", "X", "T", "-", "X", "-", "K", "E", "Y">>
S_EXT_X_KEY_NONE == <<"#", "E", "X", "T", "-", "X", "-", "K", "E", "Y", ":", "M", "E", "T", "H", "O", "D", "=", "N", "O", "N", "E">>

\* What requests.get(url, timeout=30) followed by raise_for_status() and
\* response.text can do: hand back the body text, or raise exception class exc
\* whose str() is msg (body is then the body of the error response, if any).
Response(body) == [kind |-> "response", exc |-> "", msg |-> "", body |-> body]
Raised(exc, msg, body) == [kind |-> "raise", exc |-> exc, msg |-> msg, body |-> body]

\* requests.exceptions: the classes derived from RequestException
RequestExceptions ==
    {"RequestException", "HTTPError", "ConnectionError", "Timeout",
     "MissingSchema", "InvalidSchema", "InvalidURL", "TooManyRedirects"}

\* except requests.Timeout
IsRequestException_TimeoutOnly(exc) == exc = "Timeout"

\* except requests.ConnectionError
IsRequestException_ConnectionOnly(exc) == exc = "ConnectionError"

\* except requests.RequestException
IsRequestException(exc) == exc \in RequestExceptions

\* the verdict for an empty url
Unchecked == [checked |-> FALSE, type |-> "-", drm_found |-> FALSE, error |-> None]

\* result = {"checked": True, "type": "UNKNOWN", ...}
InitialResult == [checked |-> TRUE, type |-> "UNKNOWN", drm_found |-> FALSE, error |-> None]

\* "<ContentProtection" in content
MpdDrm(content) == Contains(content, S_ContentProtection)

\* the rule of the earlier revision: any key tag
M3u8Drm_AnyKey(content) == Contains(content, S_EXT_X_KEY)

\* not method_none, with or without a key tag
M3u8Drm_NotNone(content) == ~Contains(content, S_EXT_X_KEY_NONE)

\* has_key and not method_none
M3u8Drm(content) ==
    LET has_key == Contains(content, S_EXT_X_KEY)
        method_none == Contains(content, S_EXT_X_KEY_NONE)
    IN  has_key /\ ~method_none

\* the suffix tested on the whole lower-cased url instead of its path
Classify_WholeUrl(result, url, content) ==
    LET path == Lower(url)
    IN  IF EndsWith(path, S_mpd)
        THEN [result EXCEPT !.type = "MPD", !.drm_found = MpdDrm(content)]
        ELSE IF EndsWith(path, S_m3u8)
        THEN [result EXCEPT !.type = "M3U8", !.drm_found = M3u8Drm(content)]
        ELSE result

\* the if / elif on the lower-cased path
Classify(result, url, content) ==
    LET path == Lower(UrlPath(url))
    IN  IF EndsWith(path, S_mpd)
        THEN [result EXCEPT !.type = "MPD", !.drm_found = MpdDrm(content)]
        ELSE IF EndsWith(path, S_m3u8)
        THEN [result EXCEPT !.type = "M3U8", !.drm_found = M3u8Drm(content)]
        ELSE result

\* raise_for_status() called after the classification of the body
TryBlock_StatusLast(result, url, out) ==
    [result |-> Classify(result, url, out.body), raised |-> out.kind = "raise"]

\* the type resolved from the path before the fetch
TryBlock_TypeFirst(result, url, out) ==
    IF out.kind = "raise"
    THEN [result |-> [result EXCEPT !.type = Classify(result, url, <<>>).type],
          raised |-> TRUE]
    ELSE [result |-> Classify(result, url, out.body), raised |-> FALSE]

\* the body of the try: the fetch, then the classification of its text.
\* An exception leaves result as it was before the try.
TryBlock(result, url, out) ==
    IF out.kind = "raise"
    THEN [result |-> result, raised |-> TRUE]
    ELSE [result |-> Classify(result, url, out.body), raised |-> FALSE]

Return(v, n) == [kind |-> "return", value |-> Some(v), exc |-> "", gets |-> n]
Raise(exc, n) == [kind |-> "raise", value |-> None, exc |-> exc, gets |-> n]

\* a failed fetch tried a second time
CheckManifest_Retry(url, out) ==
    IF ~Truthy(url)
    THEN Return(Unchecked, 0)
    ELSE LET t == TryBlock(InitialResult, url, out)
         IN  IF ~t.raised THEN Return(t.result, 1)
             ELSE IF IsRequestException(out.exc)
             THEN Return([t.result EXCEPT !.error = Some(out.msg)], 2)
             ELSE Raise(out.exc, 2)

\* check_manifest(url) when the network answers out: what the call does
\* (returns a verdict or lets an exception through) and how many GETs it made
CheckManifest(url, out) ==
    IF ~Truthy(url)
    THEN Return(Unchecked, 0)
    ELSE LET t == TryBlock(InitialResult, url, out)
         IN  IF ~t.raised THEN Return(t.result, 1)
             ELSE IF IsRequestException(out.exc)
             THEN Return([t.result EXCEPT !.error = Some(out.msg)], 1)
             ELSE Raise(out.exc, 1)

-----------------------------------------------------------------------------
(* check_manifest of the earlier revision (valid_drm-v0.py) *)

\* "#EXT-X-KEY" in content
V0_M3u8Drm(content) == Contains(content, S_EXT_X_KEY)

\* the if / elif on the lower-cased path
V0_Classify(result, url, content) ==
    LET path == Lower(UrlPath(url))
    IN  IF EndsWith(path, S_mpd)
        THEN [result EXCEPT !.type = "MPD",
                            !.drm_found = Contains(content, S_ContentProtection)]
        ELSE IF EndsWith(path, S_m3u8)
        THEN [result EXCEPT !.type = "M3U8", !.drm_found = V0_M3u8Drm(content)]
        ELSE result

\* the body of the try
V0_TryBlock(result, url, out) ==
    IF out.kind = "raise"
    THEN [result |-> result, raised |-> TRUE]
    ELSE [result |-> V0_Classify(result, url, out.body), raised |-> FALSE]

\* check_manifest(url) of the earlier revision when the network answers out
V0_CheckManifest(url, out) ==
    IF ~Truthy(url)
    THEN Return(Unchecked, 0)
    ELSE LET t == V0_TryBlock(InitialResult, url, out)
         IN  IF ~t.raised THEN Return(t.result, 1)
             ELSE IF IsRequestException(out.exc)
             THEN Return([t.result EXCEPT !.error = Some(out.msg)], 1)
             ELSE Raise(out.exc, 1)

-----------------------------------------------------------------------------
(* The network *)

U_mpd == <<"h", "t", "t", "p", ":", "/", "/", "h", "/", "a", ".", "m", "p", "d">>
U_MPD == <<"h", "t", "t", "p", ":", "/", "/", "h", "/", "A", ".", "M", "P", "D">>
U_m3u8 == <<"h", "t", "t", "p", ":", "/", "/", "h", "/", "a", ".", "m", "3", "u", "8">>
U_M3U8 == <<"H", "T", "T", "P", ":", "/", "/", "h", "/", "A", ".", "M", "3", "u", "8">>
U_mpd_query == <<"h", "t", "t", "p", ":", "/", "/", "h", "/", "a", ".", "m", "p", "d", "?", "f", "=", ".", "m", "3", "u", "8">>
U_query_mpd == <<"h", "t", "t", "p", ":", "/", "/", "h", "/", "a", "?", "f", "=", ".", "m", "p", "d">>
U_m3u8_frag == <<"h", "t", "t", "p", ":", "/", "/", "h", "/", "a", ".", "m", "3", "u", "8", "#", ".", "m", "p", "d">>
U_mpd_params == <<"h", "t", "t", "p", ":", "/", "/", "h", "/", "a", ".", "m", "p", "d", ";", "v", "=", "1">>
U_host_mpd == <<"h", "t", "t", "p", ":", "/", "/", "h", ".", "m", "p", "d">>
U_mpd_slash == <<"h", "t", "t", "p", ":", "/", "/", "h", "/", "a", ".", "m", "p", "d", "/">>
U_mp4 == <<"h", "t", "t", "p", ":", "/", "/", "h", "/", "a", ".", "m", "p", "4">>
U_noscheme == <<"/", "a", ".", "m", "3", "u", "8">>

F_key_aes == <<"#", "E", "X", "T", "-", "X", "-", "K", "E", "Y", ":", "M", "E", "T", "H", "O", "D", "=", "A", "E", "S", "-", "1", "2", "8", "\n">>
F_key_none == <<"#", "E", "X", "T", "-", "X", "-", "K", "E", "Y", ":", "M", "E", "T", "H", "O", "D", "=", "N", "O", "N", "E", "\n">>
F_key_bare == <<"#", "E", "X", "T", "-", "X", "-", "K", "E", "Y">>
F_method_none == <<":", "M", "E", "T", "H", "O", "D", "=", "N", "O", "N", "E">>
F_cp == <<"<", "C", "o", "n", "t", "e", "n", "t", "P", "r", "o", "t", "e", "c", "t", "i", "o", "n", " ", "f", "o", "o", "=", "\"", "b", "a", "r", "\"", ">">>
F_cp_lower == <<"<", "c", "o", "n", "t", "e", "n", "t", "p", "r", "o", "t", "e", "c", "t", "i", "o", "n", ">">>
F_extm3u == <<"#", "E", "X", "T", "M", "3", "U", "\n">>

\* the pieces response bodies are put together from
Fragments == {F_key_aes, F_key_none, F_key_bare, F_method_none, F_cp, F_cp_lower, F_extm3u}

\* the largest number of pieces in a response body
MaxBodyFrags == 2

RECURSIVE Concat(_)
Concat(ss) == IF ss = <<>> THEN <<>> ELSE Head(ss) \o Concat(Tail(ss))

Bodies == {Concat(fs) : fs \in UNION {[1..k -> Fragments] : k \in 0..MaxBodyFrags}}

\* a body carrying the markers of both manifest formats
ProtectedBody == F_cp \o F_key_aes

\* the ways a fetch fails: exception class and str(e)
Failures ==
    {Raised("Timeout", "", <<>>),
     Raised("Timeout", "Read timed out.", <<>>),
     Raised("ConnectionError", "Connection refused", <<>>),
     Raised("HTTPError", "404 Client Error", ProtectedBody)}

\* requests.get on a url without a scheme (the empty string too)
NoScheme == Raised("MissingSchema", "No scheme supplied", <<>>)

\* the outcomes the network can give a fetch of url, net being those of a
\* well-formed url
FetchOutcomes(url, net) == IF UrlScheme(url) = <<>> THEN {NoScheme} ELSE net

ClassifyUrls ==
    {<<>>, U_mpd, U_MPD, U_m3u8, U_M3U8, U_mpd_query, U_query_mpd, U_m3u8_frag,
     U_mpd_params, U_host_mpd, U_mpd_slash, U_mp4, U_noscheme}

ClassifyOutcomes == {Response(b) : b \in Bodies} \cup Failures

-----------------------------------------------------------------------------
(* The rows read from the CSV file *)

CSV_DRM_FIELDS == <<"URL", "TIMESHIFT_URL">>
MAX_WORKERS == 3

C_blank == <<" ", "\t">>
C_padded_mpd == <<" ", "h", "t", "t", "p", ":", "/", "/", "h", "/", "a", ".", "m", "p", "d", " ">>

\* the largest number of rows in the CSV file
MaxRows == 2

\* csv.DictReader: every row has the columns of the header line
Headers == {{"URL", "TIMESHIFT_URL"}, {"URL"}, {"TIMESHIFT_URL"}}

RowBoth == [URL |-> U_mpd, TIMESHIFT_URL |-> U_m3u8]
RowNoTimeshift == [URL |-> U_m3u8, TIMESHIFT_URL |-> <<>>]
RowPadded == [URL |-> C_blank, TIMESHIFT_URL |-> C_padded_mpd]
RunRows == {RowBoth, RowNoTimeshift, RowPadded}

\* the outcomes of a fetch during a run
RunOutcomes ==
    {Response(ProtectedBody),
     Raised("Timeout", "", <<>>),
     Raised("HTTPError", "404 Client Error", ProtectedBody)}

\* row.get(field, default)
RowGet(row, field, default) == IF field \in DOMAIN row THEN row[field] ELSE default

\* row.get(field, ""): the cell as it stands in the file
CellUrl_NoStrip(row, field) == RowGet(row, field, <<>>)

\* row.get(field, "").strip(): the url process_row hands to check_manifest
CellUrl(row, field) == Strip(RowGet(row, field, <<>>))

Indexes == DOMAIN rows
Fields == Range(CSV_DRM_FIELDS)

-----------------------------------------------------------------------------
(* main, the executor and its workers *)

NewFuture == [state |-> "PENDING", exception |-> None, result |-> None]
NoCall == [url |-> <<>>, out |-> NoScheme, ret |-> None, ret0 |-> None]

\* the state after rows = read_csv(...), results = [None] * total, completed = 0
InitRun(rs) ==
    /\ rows = rs
    /\ total = Cardinality(DOMAIN rs)
    /\ pc = IF DOMAIN rs = {} THEN "collect" ELSE "submit"
    /\ submitted = 0
    /\ queue = <<>>
    /\ futures = <<>>
    /\ task = [i \in DOMAIN rs |-> [pos |-> 0, drm_results |-> <<>>]]
    /\ results = [i \in DOMAIN rs |-> None]
    /\ completed = 0
    /\ yielded = <<>>
    /\ progress = <<>>
    /\ gets = [i \in DOMAIN rs |-> [f \in Fields |-> 0]]
    /\ resp = [i \in DOMAIN rs |-> [f \in Fields |-> None]]
    /\ report = None
    /\ call = NoCall

Init ==
    \E n \in 0..MaxRows : \E hdr \in Headers : \E rs \in [0..(n - 1) -> RunRows] :
        InitRun([i \in 0..(n - 1) |-> [f \in hdr |-> rs[i][f]]])

\* executor.submit(process_row, idx, row) for the next row of enumerate(rows)
Submit ==
    /\ pc = "submit"
    /\ submitted < total
    /\ futures' = futures @@ (submitted :> NewFuture)
    /\ queue' = Append(queue, submitted)
    /\ submitted' = submitted + 1
    /\ pc' = IF submitted + 1 = total THEN "collect" ELSE "submit"
    /\ UNCHANGED <<rows, total, task, results, completed, yielded, progress,
                   gets, resp, report, call>>

Running == {i \in DOMAIN futures : futures[i].state = "RUNNING"}

\* a thread started for every submitted task
WorkerFree_Unbounded == TRUE

\* worker threads that end after their first task
WorkerFree_NoReuse ==
    Cardinality({i \in DOMAIN futures : futures[i].state # "PENDING"}) < MAX_WORKERS

\* the pool has fewer than max_workers threads busy
WorkerFree == Cardinality(Running) < MAX_WORKERS

\* a free worker thread takes the oldest work item off the queue
WorkerStart ==
    /\ queue # <<>>
    /\ WorkerFree
    /\ futures' = [futures EXCEPT ![Head(queue)].state = "RUNNING"]
    /\ queue' = Tail(queue)
    /\ UNCHANGED <<rows, total, pc, submitted, task, results, completed,
                   yielded, progress, gets, resp, report, call>>

\* the fields taken last first
FieldAt_Reversed(pos) == CSV_DRM_FIELDS[Len(CSV_DRM_FIELDS) - pos]

\* for field in CSV_DRM_FIELDS: the field of turn pos (0-based) of the loop
FieldAt(pos) == CSV_DRM_FIELDS[pos + 1]

\* process_row, one turn of its loop:
\* drm_results[field] = check_manifest(row.get(field, "").strip())
CheckField(i) ==
    /\ i \in Running
    /\ task[i].pos < Len(CSV_DRM_FIELDS)
    /\ LET field == FieldAt(task[i].pos)
           url == CellUrl(rows[i], field)
       IN  \E out \in FetchOutcomes(url, RunOutcomes) :
             LET r == CheckManifest(url, out)
             IN  /\ gets' = [gets EXCEPT ![i][field] = @ + r.gets]
                 /\ resp' = IF r.gets > 0 THEN [resp EXCEPT ![i][field] = Some(out)]
                                          ELSE resp
                 /\ IF r.kind = "return"
                    THEN /\ task' = [task EXCEPT ![i].pos = @ + 1,
                                                 ![i].drm_results = @ @@ (field :> r.value[1])]
                         /\ UNCHANGED futures
                    ELSE /\ futures' = [futures EXCEPT ![i].state = "FINISHED",
                                                       ![i].exception = Some(r.exc)]
                         /\ UNCHANGED task
    /\ UNCHANGED <<rows, total, pc, submitted, queue, results, completed,
                   yielded, progress, report, call>>

\* return 0, drm_results
TaskResult_IndexZero(index, drm_results) == <<0, drm_results>>

\* return index, drm_results
TaskResult(index, drm_results) == <<index, drm_results>>

\* process_row: return index, drm_results; the worker sets the future's result
TaskReturn(i) ==
    /\ i \in Running
    /\ task[i].pos = Len(CSV_DRM_FIELDS)
    /\ futures' = [futures EXCEPT ![i].state = "FINISHED",
                                  ![i].result = Some(TaskResult(i, task[i].drm_results))]
    /\ UNCHANGED <<rows, total, pc, submitted, queue, task, results, completed,
                   yielded, progress, gets, resp, report, call>>

\* results filled in completion order, as results.append(drm_result) would
StoreResult_CompletionOrder(res, idx, drm_result) ==
    LET k == Cardinality({j \in DOMAIN res : res[j] # None})
    IN  [res EXCEPT ![k] = Some(drm_result)]

\* results[idx] = drm_result
StoreResult(res, idx, drm_result) == [res EXCEPT ![idx] = Some(drm_result)]

\* completed += 2, one for each column of the row
Increment_PerColumn(c) == c + 2

\* completed += 1
Increment(c) == c + 1

\* the line printed before the counter is incremented
ProgressLine_BeforeIncrement(c, t) == [completed |-> c - 1, total |-> t]

\* print(f"[{completed}/{total}] ..."): the counts of the progress line;
\* the elapsed and remaining times it also shows depend on the clock alone
ProgressLine(c, t) == [completed |-> c, total |-> t]

\* as_completed(futures) yields a finished future; the loop body runs on it.
\* future.result() raises again what the task raised, which ends the loop.
Collect(i) ==
    /\ pc = "collect"
    /\ i \in DOMAIN futures
    /\ futures[i].state = "FINISHED"
    /\ i \notin Range(yielded)
    /\ yielded' = Append(yielded, i)
    /\ IF futures[i].exception # None
       THEN /\ pc' = "unwind"
            /\ UNCHANGED <<results, completed, progress>>
       ELSE LET idx == futures[i].result[1][1]
                drm_result == futures[i].result[1][2]
            IN  /\ results' = StoreResult(results, idx, drm_result)
                /\ completed' = Increment(completed)
                /\ progress' = Append(progress, ProgressLine(completed', total))
                /\ pc' = pc
    /\ UNCHANGED <<rows, total, submitted, queue, futures, task, gets, resp,
                   report, call>>

\* the loop left at the first completed future
LoopDone_FirstCompleted == Len(yielded) >= 1

\* as_completed has yielded every future
LoopDone == Len(yielded) = Cardinality(DOMAIN futures)

\* leaving the with block: executor.shutdown(wait=True) returns once every
\* submitted task has run; then generate_html_report is called, or the
\* exception that ended the loop ends main
ExitWith ==
    /\ \/ pc = "collect" /\ LoopDone
       \/ pc = "unwind"
    /\ \A i \in DOMAIN futures : futures[i].state = "FINISHED"
    /\ pc' = IF pc = "unwind" THEN "aborted" ELSE "render"
    /\ UNCHANGED <<rows, total, submitted, queue, futures, task, results,
                   completed, yielded, progress, gets, resp, report, call>>

\* status_cell(res); "NAO" stands for the cell text with the tilde
StatusCell(res) ==
    IF ~res.checked THEN "-"
    ELSE IF res.error # None /\ res.error[1] # "" THEN "ERRO"
    ELSE IF res.drm_found THEN "SIM"
    ELSE "NAO"

\* one <tr> of the report
TableRow(idx, row, drm) ==
    [idx |-> idx,
     url |-> RowGet(row, "URL", <<>>),
     url_status |-> StatusCell(drm["URL"]),
     url_type |-> drm["URL"].type,
     timeshift_url |-> RowGet(row, "TIMESHIFT_URL", <<>>),
     timeshift_status |-> StatusCell(drm["TIMESHIFT_URL"]),
     timeshift_type |-> drm["TIMESHIFT_URL"].type]

\* generate_html_report(rows, results, output_html): rows[0] of no rows and
\* drm["URL"] of a None result raise, and no report is written
GenerateHtmlReport ==
    /\ pc = "render"
    /\ IF total = 0 \/ \E i \in Indexes : results[i] = None
       THEN /\ pc' = "crashed"
            /\ UNCHANGED report
       ELSE /\ report' = Some([k \in 1..total |-> TableRow(k, rows[k - 1], results[k - 1][1])])
            /\ pc' = "done"
    /\ UNCHANGED <<rows, total, submitted, queue, futures, task, results,
                   completed, yielded, progress, gets, resp, call>>

Next ==
    \/ Submit
    \/ WorkerStart
    \/ \E i \in Indexes : CheckField(i)
    \/ \E i \in Indexes : TaskReturn(i)
    \/ \E i \in Indexes : Collect(i)
    \/ ExitWith
    \/ GenerateHtmlReport

Spec == Init /\ [][Next]_vars

-----------------------------------------------------------------------------
(* check_manifest called once, on any url and any answer of the network *)

InitClassify ==
    /\ rows = <<>>
    /\ total = 0
    /\ pc = "classify"
    /\ submitted = 0
    /\ queue = <<>>
    /\ futures = <<>>
    /\ task = <<>>
    /\ results = <<>>
    /\ completed = 0
    /\ yielded = <<>>
    /\ progress = <<>>
    /\ gets = <<>>
    /\ resp = <<>>
    /\ report = None
    /\ \E url \in ClassifyUrls : \E out \in FetchOutcomes(url, ClassifyOutcomes) :
          call = [url |-> url, out |-> out, ret |-> None, ret0 |-> None]

CallCheckManifest ==
    /\ pc = "classify"
    /\ call.ret = None
    /\ call' = [call EXCEPT !.ret = Some(CheckManifest(call.url, call.out))]
    /\ UNCHANGED <<rows, total, pc, submitted, queue, futures, task, results,
                   completed, yielded, progress, gets, resp, report>>

\* the same call made to check_manifest of the earlier revision
CallCheckManifestV0 ==
    /\ pc = "classify"
    /\ call.ret0 = None
    /\ call' = [call EXCEPT !.ret0 = Some(V0_CheckManifest(call.url, call.out))]
    /\ UNCHANGED <<rows, total, pc, submitted, queue, futures, task, results,
                   completed, yielded, progress, gets, resp, report>>

NextClassify ==
    \/ CallCheckManifest
    \/ CallCheckManifestV0

SpecClassify == InitClassify /\ [][NextClassify]_vars

-----------------------------------------------------------------------------
(* Properties of a run (Spec) *)

\* the answer the network gave the fetch for (i, f); none was asked for an
\* empty url
OutcomeOf(i, f) == IF resp[i][f] = None THEN NoScheme ELSE resp[i][f][1]

\* the fetch for (i, f) was made and failed
FetchFailed(i, f) == resp[i][f] # None /\ resp[i][f][1].kind = "raise"

\* the verdicts of row i: check_manifest of each of its two urls, each with
\* the answer its own fetch got
RowVerdicts(i) ==
    [f \in Fields |-> CheckManifest(CellUrl(rows[i], f), OutcomeOf(i, f)).value[1]]

\* C1: when the results are handed to generate_html_report there are as many
\* as input rows, and the entry at position i holds the verdicts computed for
\* input row i, whatever the order in which the tasks completed.
C1_OrderPreserved ==
    pc = "render" =>
        /\ DOMAIN results = 0..(Cardinality(DOMAIN rows) - 1)
        /\ \A i \in Indexes : results[i] = Some(RowVerdicts(i))

\* C1 witness: rendering starts after row 1 completed before row 0, the two
\* rows having different verdicts.
C1_Witness ==
    /\ pc = "render"
    /\ yielded = <<1, 0>>
    /\ results[0] # results[1]
    /\ results[0] = Some(RowVerdicts(0))

\* C2: when generate_html_report is called, every result slot is filled and
\* every submitted task has finished: none is queued or running.
C2_RenderAfterAllTasks ==
    pc = "render" =>
        /\ \A i \in Indexes : results[i] # None
        /\ DOMAIN futures = Indexes
        /\ queue = <<>>
        /\ \A i \in DOMAIN futures : futures[i].state = "FINISHED"

\* C2 witness: rendering starts in a run of two rows or more.
C2_Witness ==
    /\ pc = "render"
    /\ total >= 2
    /\ \A i \in Indexes : results[i] # None /\ futures[i].state = "FINISHED"

\* C3: a failed fetch never aborts the batch: no task ends with an exception
\* and main never leaves the loop by one; when rendering starts every row has
\* a result, a failed fetch is the error of its own verdict, and every verdict
\* is the one its own url and its own fetch give, whatever the other fetches
\* did.
C3_FailureContained ==
    /\ pc \notin {"unwind", "aborted"}
    /\ \A i \in DOMAIN futures : futures[i].exception = None
    /\ pc = "render" =>
         \A i \in Indexes :
            /\ results[i] # None
            /\ \A f \in Fields :
                 LET v == results[i][1][f]
                 IN  IF FetchFailed(i, f)
                     THEN /\ v.error = Some(resp[i][f][1].msg)
                          /\ v.checked
                          /\ ~v.drm_found
                     ELSE /\ v.error = None
                          /\ v = RowVerdicts(i)[f]

\* C3 witness: rendering starts after one fetch of a row failed and the other
\* fetch of the same row, and a fetch of another row, found DRM.
C3_Witness ==
    /\ pc = "render"
    /\ \E i \in Indexes : \E j \in Indexes \ {i} : \E f, g \in Fields :
         /\ FetchFailed(i, f)
         /\ f # g /\ results[i][1][g].drm_found
         /\ results[j][1][f].drm_found

\* the unchecked verdict, written out
UncheckedVerdict == [checked |-> FALSE, type |-> "-", drm_found |-> FALSE, error |-> <<>>]

\* C6: for an empty url check_manifest returns the unchecked verdict and makes
\* no network call: no GET is ever counted for a (row, column) whose url is
\* empty, and its verdict, once computed and once stored, is the unchecked one.
C6_EmptyUrlNoFetch ==
    \A i \in Indexes : \A f \in Fields :
        CellUrl(rows[i], f) = <<>> =>
            /\ gets[i][f] = 0
            /\ resp[i][f] = None
            /\ f \in DOMAIN task[i].drm_results => task[i].drm_results[f] = UncheckedVerdict
            /\ results[i] # None => results[i][1][f] = UncheckedVerdict

\* C6 witness: a row's result is stored, one of its urls being empty and the
\* other fetched.
C6_Witness ==
    \E i \in Indexes : \E f, g \in Fields :
        /\ CellUrl(rows[i], f) = <<>>
        /\ results[i] # None
        /\ results[i][1][f] = UncheckedVerdict
        /\ gets[i][g] = 1

NonEmptyCells == {c \in Indexes \X Fields : CellUrl(rows[c[1]], c[2]) # <<>>}
FetchedCells == {c \in Indexes \X Fields : gets[c[1]][c[2]] >= 1}

\* C7: a (row, column) never sees more than one GET; when rendering starts,
\* each one with a non-empty url has seen exactly one, failed or not, each
\* one with an empty url none, so the GETs are as many as the non-empty urls.
C7_OneGetPerUrl ==
    /\ \A i \in Indexes : \A f \in Fields : gets[i][f] <= 1
    /\ FetchedCells \subseteq NonEmptyCells
    /\ pc = "render" =>
         /\ FetchedCells = NonEmptyCells
         /\ \A c \in NonEmptyCells : gets[c[1]][c[2]] = 1

\* C7 witness: rendering starts after a failed fetch and a successful one,
\* each counted once.
C7_Witness ==
    /\ pc = "render"
    /\ \E c, d \in NonEmptyCells :
         /\ FetchFailed(c[1], c[2]) /\ gets[c[1]][c[2]] = 1
         /\ ~FetchFailed(d[1], d[2]) /\ gets[d[1]][d[2]] = 1

-----------------------------------------------------------------------------
(* Properties of check_manifest (SpecClassify) *)

Returned == call.ret # None /\ call.ret[1].kind = "return"
Verdict == call.ret[1].value[1]
Fetched == Truthy(call.url) /\ call.out.kind = "response"
Failed == Truthy(call.url) /\ call.out.kind = "raise"
PathEnds(suffix) == EndsWith(Lower(UrlPath(call.url)), suffix)

\* C4: check_manifest always returns a verdict, whatever the url and whatever
\* the fetch does; on a failed fetch the verdict has checked true, error not
\* None and drm_found false.
C4_NeverThrows ==
    call.ret # None =>
        /\ call.ret[1].kind = "return"
        /\ call.ret[1].value # None
        /\ Failed => /\ Verdict.checked
                     /\ Verdict.error # None
                     /\ ~Verdict.drm_found

\* C4 witness: the call returned after a connection error on a .mpd url.
C4_Witness ==
    /\ Returned
    /\ call.url = U_mpd
    /\ call.out.exc = "ConnectionError"
    /\ Verdict.error = Some("Connection refused")

\* C5: every verdict satisfies the data-model invariant: not checked implies
\* type "-", drm_found false and error None; an error implies drm_found false;
\* exactly one of not checked, error present, classified holds.
C5_VerdictInvariant ==
    Returned =>
        LET v == Verdict
            notChecked == ~v.checked
            errorPresent == v.error # None
            classified == v.checked /\ v.error = None /\ v.type \in {"UNKNOWN", "MPD", "M3U8"}
        IN  /\ notChecked => v.type = "-" /\ ~v.drm_found /\ v.error = None
            /\ errorPresent => ~v.drm_found
            /\ Cardinality({k \in 1..3 : <<notChecked, errorPresent, classified>>[k]}) = 1

\* C5 witness: the verdict of a .mpd url whose fetch failed with an error
\* response that carries DRM markers.
C5_Witness ==
    /\ Returned
    /\ call.url = U_mpd
    /\ call.out.exc = "HTTPError"
    /\ MpdDrm(call.out.body)
    /\ Verdict.error # None

\* C8: for a fetched url whose lower-cased path ends in .m3u8, drm_found is
\* true exactly when the body contains "#EXT-X-KEY" and does not contain
\* "#EXT-X-KEY:METHOD=NONE"; a body whose only key tag is METHOD=NONE gives
\* false, one with a METHOD=AES-128 key tag and no METHOD=NONE gives true.
C8_M3u8Rule ==
    (Returned /\ Fetched /\ PathEnds(S_m3u8)) =>
        /\ Verdict.drm_found =
              (Contains(call.out.body, S_EXT_X_KEY) /\ ~Contains(call.out.body, S_EXT_X_KEY_NONE))
        /\ call.out.body \in {F_key_none, F_extm3u \o F_key_none} => ~Verdict.drm_found
        /\ call.out.body \in {F_key_aes, F_extm3u \o F_key_aes} => Verdict.drm_found
        /\ Verdict.error = None

\* C8 witness: a .M3u8 url fetched with a body holding an AES-128 key tag and
\* a METHOD=NONE key tag: no DRM found.
C8_Witness ==
    /\ Returned
    /\ call.url = U_M3U8
    /\ call.out.body = F_key_aes \o F_key_none
    /\ ~Verdict.drm_found

\* the type each url of the model must get, by its path
TypeOfUrl ==
    (U_mpd :> "MPD") @@ (U_MPD :> "MPD") @@ (U_mpd_query :> "MPD") @@
    (U_mpd_params :> "MPD") @@
    (U_m3u8 :> "M3U8") @@ (U_M3U8 :> "M3U8") @@ (U_m3u8_frag :> "M3U8") @@
    (U_query_mpd :> "UNKNOWN") @@ (U_host_mpd :> "UNKNOWN") @@
    (U_mpd_slash :> "UNKNOWN") @@ (U_mp4 :> "UNKNOWN")

\* C9: for a fetched url the type comes from the suffix of the lower-cased
\* path: .mpd gives MPD, else .m3u8 gives M3U8, else UNKNOWN; for MPD
\* drm_found is whether the body contains "<ContentProtection", for UNKNOWN
\* it is false whatever the body holds.
C9_TypeFromPath ==
    (Returned /\ Fetched) =>
        /\ Verdict.type = TypeOfUrl[call.url]
        /\ Verdict.type = IF PathEnds(S_mpd) THEN "MPD"
                          ELSE IF PathEnds(S_m3u8) THEN "M3U8" ELSE "UNKNOWN"
        /\ Verdict.type = "MPD" =>
              Verdict.drm_found = Contains(call.out.body, S_ContentProtection)
        /\ Verdict.type = "UNKNOWN" => ~Verdict.drm_found

\* C9 witness: a url with .mpd in its query only, fetched with a body full of
\* DRM markers: UNKNOWN, no DRM found.
C9_Witness ==
    /\ Returned
    /\ call.url = U_query_mpd
    /\ call.out.body = ProtectedBody
    /\ Verdict.type = "UNKNOWN"
    /\ ~Verdict.drm_found

\* C10 as stated: when the fetch of a url fails, the verdict has the type of
\* its path suffix (MPD, M3U8, UNKNOWN only with neither), error set and
\* drm_found false.
C10_TypedOnFailure ==
    (Returned /\ Failed /\ call.url \in DOMAIN TypeOfUrl) =>
        /\ Verdict.type = TypeOfUrl[call.url]
        /\ Verdict.error # None
        /\ ~Verdict.drm_found

\* C10 amended: the type is resolved from the path only after the fetch has
\* succeeded: when the fetch fails the verdict has type UNKNOWN whatever the
\* path suffix, with error set to the failure's message and drm_found false.
C10_UnknownOnFailure ==
    (Returned /\ Failed) =>
        /\ Verdict.type = "UNKNOWN"
        /\ Verdict.error = Some(call.out.msg)
        /\ ~Verdict.drm_found
        /\ Verdict.checked

\* C10 witness: the fetch of a .m3u8 url timed out and the verdict is UNKNOWN.
C10_Witness ==
    /\ Returned
    /\ call.url = U_m3u8
    /\ call.out.exc = "Timeout"
    /\ Verdict.type = "UNKNOWN"
    /\ Verdict.error # None

-----------------------------------------------------------------------------
(* Properties of the progress counter and of the progress lines (Spec) *)

\* C11: every completion is counted once: completed is the number of futures
\* the loop has handled, it never exceeds total, the value a progress line
\* shows is the counter right after its increment, no two lines show the same
\* value, and once all total tasks are handled completed equals total.
C11_CounterExact ==
    /\ completed <= total
    /\ completed = Len(yielded)
    /\ progress # <<>> => progress[Len(progress)].completed = completed
    /\ \A j, k \in DOMAIN progress :
          j # k => progress[j].completed # progress[k].completed
    /\ Len(yielded) = total => completed = total

\* C11 witness: two completions counted, the second row first, and the count
\* has reached total.
C11_Witness ==
    /\ total = 2
    /\ yielded = <<1, 0>>
    /\ completed = 2
    /\ Len(progress) = 2

\* C13: one progress line per completed task, printed once the task's result
\* is stored: there are as many lines as filled result slots, the k-th line
\* shows completed = k and the total fixed at the start, and when rendering
\* starts the last line shows completed = total.
C13_OneNotificationPerTask ==
    /\ Len(progress) = Cardinality({i \in Indexes : results[i] # None})
    /\ Len(progress) = Len(yielded)
    /\ \A k \in DOMAIN progress :
          /\ progress[k].completed = k
          /\ progress[k].total = Cardinality(DOMAIN rows)
          /\ results[yielded[k]] # None
    /\ pc = "render" =>
          /\ Len(progress) = Cardinality(DOMAIN rows)
          /\ progress # <<>> => progress[Len(progress)].completed = progress[1].total

\* C13 witness: rendering starts after two progress lines, 1 of 2 and 2 of 2.
C13_Witness ==
    /\ pc = "render"
    /\ progress = <<[completed |-> 1, total |-> 2], [completed |-> 2, total |-> 2]>>

-----------------------------------------------------------------------------
(* Properties of the dispatch (Spec) *)

\* C12 as stated: once the rows are submitted there is one task per
\* (row, column) pair, 2 x N tasks for N rows.
C12_TaskPerCell ==
    pc # "submit" => Cardinality(DOMAIN futures) = 2 * Cardinality(DOMAIN rows)

\* C12 amended: there is one task per row, N tasks for N rows, each carrying
\* its row index and returning the verdicts of both columns; the two column
\* checks of a row run one after the other inside that task, URL before
\* TIMESHIFT_URL, never concurrently.
C12_TaskPerRow ==
    /\ Cardinality(DOMAIN futures) = submitted
    /\ pc # "submit" => DOMAIN futures = Indexes
    /\ \A i \in DOMAIN futures :
          futures[i].result # None =>
              /\ futures[i].result[1][1] = i
              /\ DOMAIN futures[i].result[1][2] = Fields
    /\ \A i \in Indexes :
          /\ DOMAIN task[i].drm_results \in {{}, {"URL"}, {"URL", "TIMESHIFT_URL"}}
          /\ gets[i]["TIMESHIFT_URL"] > 0 => "TIMESHIFT_URL" \in DOMAIN task[i].drm_results
          /\ gets[i]["URL"] > 0 => "URL" \in DOMAIN task[i].drm_results

\* C12 witness: the one task of a row has checked URL and not yet
\* TIMESHIFT_URL, in a run of two rows and so of two tasks.
C12_Witness ==
    /\ pc = "collect"
    /\ Cardinality(DOMAIN futures) = 2
    /\ \E i \in Running :
          /\ DOMAIN task[i].drm_results = {"URL"}
          /\ gets[i]["URL"] = 1
          /\ CellUrl(rows[i], "TIMESHIFT_URL") # <<>>

-----------------------------------------------------------------------------
(* Runs of more rows than the pool has workers *)

\* the largest number of rows of these runs
MaxPoolRows == 4

RowNoScheme == [URL |-> U_noscheme, TIMESHIFT_URL |-> <<>>]

\* rows of one url each, every second url lacks its scheme
InitPool ==
    \E n \in 0..MaxPoolRows :
        InitRun([i \in 0..(n - 1) |-> IF i % 2 = 0 THEN RowNoTimeshift ELSE RowNoScheme])

SpecPool == InitPool /\ [][Next]_vars

\* C14: at every moment of a run, of any number of rows, at most MAX_WORKERS
\* tasks are executing, and so at most MAX_WORKERS fetches are in flight; a
\* task that is not executing or finished is waiting in the queue.
C14_BoundedConcurrency ==
    /\ Cardinality(Running) <= MAX_WORKERS
    /\ \A i \in DOMAIN futures : futures[i].state = "PENDING" <=> i \in Range(queue)
    /\ \A i \in Indexes :
          (task[i].pos > 0 \/ gets[i]["URL"] > 0) =>
              i \in DOMAIN futures /\ futures[i].state \in {"RUNNING", "FINISHED"}

\* C14 witness: MAX_WORKERS tasks are executing and a fourth waits in the
\* queue.
C14_Witness ==
    /\ Cardinality(Running) = MAX_WORKERS
    /\ queue # <<>>
    /\ \A i \in Range(queue) : task[i].pos = 0 /\ gets[i]["URL"] = 0

PoolIndexes == 0..(MaxPoolRows - 1)

\* task i is inside a call of check_manifest
Fetching(i) == i \in Running /\ task[i].pos < Len(CSV_DRM_FIELDS)

\* every fetch returns or times out: no task stays in check_manifest for ever
FetchesReturn == \A i \in PoolIndexes : []<>(~Fetching(i))

\* the main thread and the worker threads are scheduled: a step of theirs
\* that stays possible is taken in the end
FairScheduling ==
    /\ WF_vars(Submit)
    /\ WF_vars(WorkerStart)
    /\ WF_vars(\E i \in Indexes : TaskReturn(i))
    /\ WF_vars(\E i \in Indexes : Collect(i))
    /\ WF_vars(ExitWith)

SpecPoolFair == SpecPool /\ FairScheduling /\ FetchesReturn

\* C18: with fair workers and fetches that return, every run, also of more
\* rows than workers, reaches the call of generate_html_report with every
\* task finished and every row's result stored.
C18_Terminates ==
    <>(/\ pc = "render"
       /\ \A i \in Indexes : results[i] # None /\ futures[i].state = "FINISHED")

\* C18 witness: rendering starts in a run of more rows than workers, one of
\* whose fetches failed.
C18_Witness ==
    /\ pc = "render"
    /\ total > MAX_WORKERS
    /\ \E i \in Indexes : FetchFailed(i, "URL")
    /\ \A i \in Indexes : results[i] # None

-----------------------------------------------------------------------------
(* The report *)

\* C15: in a run whose rows lack one of the columns URL and TIMESHIFT_URL no
\* report is produced, and no result gives the missing column a verdict with
\* checked = false.
C15_MissingColumnFailsRun ==
    \A i \in Indexes : \A f \in Fields :
        f \notin DOMAIN rows[i] =>
            /\ report = None
            /\ results[i] # None => results[i][1][f].checked

\* the status cell the report shows for column f of row i
ReportStatus(i, f) ==
    IF f = "URL" THEN report[1][i + 1].url_status
                 ELSE report[1][i + 1].timeshift_status

\* C16: the report has one table row per input row, in order, and each status
\* cell is "-" iff the verdict has checked = false, ERRO iff the fetch failed,
\* SIM iff drm_found is true, and NAO iff the fetch succeeded and drm_found is
\* false, whatever the text of the error message.
C16_NoConflation ==
    pc = "done" =>
        /\ Len(report[1]) = total
        /\ \A i \in Indexes : report[1][i + 1].idx = i + 1
        /\ \A i \in Indexes : \A f \in Fields :
              LET v == results[i][1][f]
                  cell == ReportStatus(i, f)
              IN  /\ cell = "-" <=> ~v.checked
                  /\ cell = "ERRO" <=> FetchFailed(i, f)
                  /\ cell = "SIM" <=> v.drm_found
                  /\ cell = "NAO" <=> (v.checked /\ ~FetchFailed(i, f) /\ ~v.drm_found)

-----------------------------------------------------------------------------
(* The result slots *)

\* C17: a step never changes a slot of results that is filled, fills at most
\* one slot, and fills slot i only with what the task of row i returned, that
\* task having returned index i.
C17_SlotWrittenOnce ==
    [][\A i \in Indexes :
          /\ results[i] # None => results'[i] = results[i]
          /\ (results[i] = None /\ results'[i] # None) =>
                /\ futures[i].result # None
                /\ futures[i].result[1][1] = i
                /\ results'[i] = Some(futures[i].result[1][2])
                /\ results'[i] = Some(task[i].drm_results)
                /\ \A j \in Indexes \ {i} : results'[j] = results[j]]_vars

\* C17 witness: the task of row 1 finished first and its slot is filled
\* while slot 0 is still empty.
C17_Witness ==
    /\ total = 2
    /\ results[1] # None
    /\ results[0] = None
    /\ results[1] = Some(task[1].drm_results)

-----------------------------------------------------------------------------
(* The sequential loop of the earlier revision (valid_drm-v0.py, main) *)

\* drm_results of one row: drm_results[field] =
\* check_manifest(row.get(field, "").strip()), outs[field] being the answer of
\* the network to the fetch of that column
V0_DrmResults(row, outs) ==
    [f \in Range(CSV_DRM_FIELDS) |->
        CheckManifest(Strip(IF f \in DOMAIN row THEN row[f] ELSE <<>>), outs[f]).value[1]]

RECURSIVE V0_Loop(_, _, _, _)
\* for row in rows: ... results.append(drm_results), from row k on
V0_Loop(rs, outs, k, acc) ==
    IF k \notin DOMAIN rs THEN acc
    ELSE V0_Loop(rs, outs, k + 1, Append(acc, V0_DrmResults(rs[k], outs[k])))

\* results = []; the loop over rows
V0_Results(rs, outs) == V0_Loop(rs, outs, 0, <<>>)

\* the answers the fetches of the run got, by row and column
RunAnswers == [i \in Indexes |-> [f \in Fields |-> OutcomeOf(i, f)]]

\* C19: the results the concurrent run hands to generate_html_report are the
\* list the sequential loop of the earlier revision builds from the same rows,
\* row by row in order, with the same check_manifest and the same answers of
\* the network.
C19_SameAsSequential ==
    pc = "render" =>
        /\ Len(V0_Results(rows, RunAnswers)) = total
        /\ \A i \in Indexes : results[i] = Some(V0_Results(rows, RunAnswers)[i + 1])

\* C19 witness: rendering starts after the task of row 1 completed before the
\* task of row 0, both having fetched, one fetch having failed.
C19_Witness ==
    /\ pc = "render"
    /\ yielded = <<1, 0>>
    /\ \A i \in Indexes : gets[i]["URL"] = 1
    /\ FetchFailed(0, "URL")
    /\ ~FetchFailed(1, "URL")

-----------------------------------------------------------------------------
(* The two revisions of check_manifest on the same call *)

BothReturned ==
    /\ Returned
    /\ call.ret0 # None
    /\ call.ret0[1].kind = "return"

V0_Verdict == call.ret0[1].value[1]

\* the case the refinement is about: an .m3u8 url fetched with a body holding
\* "#EXT-X-KEY:METHOD=NONE"
MethodNoneCase ==
    /\ Fetched
    /\ PathEnds(S_m3u8)
    /\ Contains(call.out.body, S_EXT_X_KEY_NONE)

\* C20: on the same url and the same answer of the network, drm_found of
\* valid_drm.py implies drm_found of valid_drm-v0.py; the two verdicts differ
\* exactly when an .m3u8 url was fetched with a body containing
\* "#EXT-X-KEY:METHOD=NONE", and then only in drm_found, true in v0 and false
\* in the refined rule; in every other case (MPD and UNKNOWN urls, empty urls,
\* failed fetches, other M3U8 bodies) they are equal.
C20_RefinementOfNaiveRule ==
    BothReturned =>
        /\ Verdict.drm_found => V0_Verdict.drm_found
        /\ Verdict # V0_Verdict <=> MethodNoneCase
        /\ MethodNoneCase =>
              /\ V0_Verdict.drm_found
              /\ ~Verdict.drm_found
              /\ Verdict = [V0_Verdict EXCEPT !.drm_found = FALSE]

\* C20 witness: both revisions have answered for an .m3u8 url whose body
\* carries an AES-128 key tag and a METHOD=NONE key tag.
C20_Witness ==
    /\ BothReturned
    /\ call.url = U_m3u8
    /\ call.out.kind = "response"
    /\ call.out.body = F_key_aes \o F_key_none
    /\ V0_Verdict.drm_found
    /\ ~Verdict.drm_found

====
